---- MODULE Spec2Model ----
(***************************************************************************)
(* Model of the four fixture generators create-test-aadhaar.py,            *)
(* create-test-pan.py, create-test-passport.py and create-test-visa.py.    *)
(*                                                                         *)
(* Each script is a straight-line program.  It is modelled as the sequence *)
(* of its statements (one instruction per source statement, in source      *)
(* order) run by a small interpreter whose actions are the statement       *)
(* kinds: call, Image.new, ImageFont.truetype (with its except handler),   *)
(* record literal, draw.rectangle, draw.text, image.resize, return,        *)
(* image.save, print and process exit.                                     *)
(*                                                                         *)
(* The canvas is abstracted to the anchor points of the script's text      *)
(* directives: pix maps every anchor point lying inside the surface to     *)
(* what is painted there last.  The environment decides whether a          *)
(* truetype load succeeds and whether image.save succeeds.                 *)
(***************************************************************************)
EXTENDS Integers, Sequences, FiniteSets, TLC

VARIABLES script, pc, frame, canvas, fonts, fontFailed, record, returned,
          fs, wrote, attempts, applied, console, status, exitCode, cause,
          runs, prev

vars == <<script, pc, frame, canvas, fonts, fontFailed, record, returned,
          fs, wrote, attempts, applied, console, status, exitCode, cause,
          runs, prev>>

\* Number of times the same script is run one after the other.
MaxRuns == 2

Scripts == {"aadhaar", "pan", "passport", "visa"}

Tiers == {"large", "medium", "small"}

----------------------------------------------------------------------------
\* Instruction constructors (one per statement kind of the scripts).

\* A piece of an f-string: a record lookup {data['key']} or literal text.
K(key) == [key |-> key, lit |-> ""]
L(s) == [key |-> "", lit |-> s]

Call(fn) == [op |-> "call", fn |-> fn]
Ret(what) == [op |-> "return", what |-> what]
Alloc(w, h, bg) == [op |-> "alloc", w |-> w, h |-> h, bg |-> bg]
\* skip = number of truetype loads that follow this one inside the try block
Font(tier, size, skip) == [op |-> "font", tier |-> tier, size |-> size, skip |-> skip]
Rec == [op |-> "record"]
Rect(x0, y0, x1, y1, fill, outline, width) ==
    [op |-> "rect", x0 |-> x0, y0 |-> y0, x1 |-> x1, y1 |-> y1,
     fill |-> fill, outline |-> outline, width |-> width]
Text(x, y, label, parts, tier, color) ==
    [op |-> "text", x |-> x, y |-> y, label |-> label, parts |-> parts,
     tier |-> tier, color |-> color]
Resize(w, h) == [op |-> "resize", w |-> w, h |-> h]
Save(path, src, quality) == [op |-> "save", path |-> path, src |-> src, quality |-> quality]
Out(kind, label, parts) == [op |-> "print", kind |-> kind, label |-> label, parts |-> parts]

----------------------------------------------------------------------------
\* The hardcoded records.

aadhaar_data ==
    [name |-> "KATRINA UUENI",
     aadhaar_number |-> "1234 5678 9012",
     date_of_birth |-> "1990-10-19",
     address |-> "Tallinn, Estonia",
     gender |-> "Female",
     father_name |-> "JOHN UUENI"]

pan_data ==
    [name |-> "KATRINA UUENI",
     pan_number |-> "ABCDE1234F",
     father_name |-> "JOHN UUENI",
     date_of_birth |-> "1990-10-19"]

passport_data ==
    [type |-> "P",
     country_code |-> "EST",
     surname |-> "UUENI",
     given_name |-> "KATRINA",
     personal_code |-> "49010195221",
     date_of_birth |-> "19.10.1990",
     document_number |-> "KF0250087",
     citizenship |-> "EST",
     sex |-> "N/F",
     place_of_birth |-> "EST",
     date_of_issue |-> "13.02.2023",
     date_of_expiry |-> "13.02.2033",
     authority |-> "PPA/PBGB",
     mrz_line1 |-> "P<ESTUUENI<<KATRINA<<<<<<<<<<<<",
     mrz_line2 |-> "KF02500875EST9010196F330213049010195221<<<08"]

\* (variant: the record without its remarks entry)
visa_data_without_remarks ==
    [visa_type |-> "Tourist",
     visa_category |-> "e-Visa",
     visa_number |-> "900F3927P",
     country |-> "India",
     authority |-> "BUREAU OF IMMIGRATION INDIA",
     issue_date |-> "14 MAR 2025",
     expiry_date |-> "09 Mar 2026",
     place_of_issue |-> "New Delhi",
     purpose_of_visit |-> "Tourism",
     port_of_entry |-> "IGI AIRPORT, NEW DELHI",
     entries |-> "MULTIPLE",
     stay_duration |-> "Each Stay not to exceed 90 days",
     nationality |-> "Estonia",
     passport_number |-> "KF0250087",
     visa_status |-> "Active",
     code |-> "C4"]

visa_data ==
    [visa_type |-> "Tourist",
     visa_category |-> "e-Visa",
     visa_number |-> "900F3927P",
     country |-> "India",
     authority |-> "BUREAU OF IMMIGRATION INDIA",
     issue_date |-> "14 MAR 2025",
     expiry_date |-> "09 Mar 2026",
     place_of_issue |-> "New Delhi",
     purpose_of_visit |-> "Tourism",
     port_of_entry |-> "IGI AIRPORT, NEW DELHI",
     entries |-> "MULTIPLE",
     stay_duration |-> "Each Stay not to exceed 90 days",
     nationality |-> "Estonia",
     passport_number |-> "KF0250087",
     visa_status |-> "Active",
     remarks |-> "Valid for tourism and leisure activities",
     code |-> "C4"]

RecordOf(s) ==
    CASE s = "aadhaar" -> aadhaar_data
      [] s = "pan" -> pan_data
      [] s = "passport" -> passport_data
      [] s = "visa" -> visa_data

\* The value of the record variable before its literal has been evaluated.
NoRecord == [k \in {} |-> ""]

----------------------------------------------------------------------------
\* Declared canvas sizes (width, height = ... in each script).

AadhaarWidth == 600
AadhaarHeight == 400
PanWidth == 600
PanHeight == 400
PassportWidth == 600
PassportHeight == 400
VisaWidth == 500
VisaHeight == 350
\* the literal height passed to image.resize in create_visa_image
VisaResizeHeight == 450
\* quality=95 of every image.save call
JpegQuality == 95

DeclaredWidth(s) ==
    CASE s = "aadhaar" -> AadhaarWidth
      [] s = "pan" -> PanWidth
      [] s = "passport" -> PassportWidth
      [] s = "visa" -> VisaWidth

DeclaredHeight(s) ==
    CASE s = "aadhaar" -> AadhaarHeight
      [] s = "pan" -> PanHeight
      [] s = "passport" -> PassportHeight
      [] s = "visa" -> VisaHeight

----------------------------------------------------------------------------
\* The scripts, statement by statement, in source order.

AadhaarTry ==
    << Font("large", 24, 2), Font("medium", 16, 1), Font("small", 12, 0) >>

AadhaarDirectives ==
    << Rect(0, 0, AadhaarWidth, 60, "#FF6B35", "", 0),
       Text(20, 20, "", <<L("Government of India")>>, "large", "white"),
       Text(20, 45, "", <<L("Aadhaar")>>, "medium", "white"),
       Text(20, 80, "Name: ", <<K("name")>>, "medium", "black"),
       Text(20, 80 + 25, "Aadhaar No: ", <<K("aadhaar_number")>>, "medium", "black"),
       Text(20, 80 + 50, "Date of Birth: ", <<K("date_of_birth")>>, "medium", "black"),
       Text(20, 80 + 75, "Gender: ", <<K("gender")>>, "medium", "black"),
       Text(20, 80 + 100, "Father's Name: ", <<K("father_name")>>, "medium", "black"),
       Text(20, 80 + 125, "Address: ", <<K("address")>>, "medium", "black"),
       Rect(400, 80, 580, 260, "", "black", 2),
       Text(420, 170, "", <<L("QR Code")>>, "small", "black"),
       Text(20, AadhaarHeight - 30, "",
            <<L("This is a test Aadhaar card for development purposes")>>, "small", "gray") >>

AadhaarSave == << Save("aadhaar.jpg", "image", JpegQuality) >>

AadhaarReport ==
    << Out("created", "Created aadhaar.jpg with Indian Aadhaar data", <<>>),
       Out("blank", "", <<>>),
       Out("header", "Expected extracted data:", <<>>),
       Out("field", "Full Name: ", <<K("name")>>),
       Out("field", "Aadhaar Number: ", <<K("aadhaar_number")>>),
       Out("field", "Date of Birth: ", <<K("date_of_birth")>>),
       Out("field", "Address: ", <<K("address")>>),
       Out("field", "Gender: ", <<K("gender")>>) >>

\* (variant: the save statement placed before the footer text)
AadhaarProgramSavingEarly ==
    << Call("create_test_aadhaar"), Alloc(AadhaarWidth, AadhaarHeight, "white") >>
    \o AadhaarTry \o << Rec >>
    \o SubSeq(AadhaarDirectives, 1, Len(AadhaarDirectives) - 1)
    \o AadhaarSave
    \o << AadhaarDirectives[Len(AadhaarDirectives)] >>
    \o AadhaarReport \o << Ret("none") >>

\* create-test-aadhaar.py: the whole script body is create_test_aadhaar().
AadhaarProgram ==
    << Call("create_test_aadhaar"), Alloc(AadhaarWidth, AadhaarHeight, "white") >>
    \o AadhaarTry \o << Rec >> \o AadhaarDirectives
    \o AadhaarSave \o AadhaarReport \o << Ret("none") >>

PanTry ==
    << Font("large", 24, 2), Font("medium", 16, 1), Font("small", 12, 0) >>

PanDirectives ==
    << Rect(0, 0, PanWidth, 60, "#8B4513", "", 0),
       Text(20, 20, "", <<L("INCOME TAX DEPARTMENT")>>, "large", "white"),
       Text(20, 45, "", <<L("GOVT. OF INDIA")>>, "medium", "white"),
       Text(20, 80, "", <<L("Permanent Account Number Card")>>, "medium", "black"),
       Text(20, 80 + 30, "Name: ", <<K("name")>>, "medium", "black"),
       Text(20, 80 + 55, "Father's Name: ", <<K("father_name")>>, "medium", "black"),
       Text(20, 80 + 80, "Date of Birth: ", <<K("date_of_birth")>>, "medium", "black"),
       Text(20, 80 + 105, "PAN: ", <<K("pan_number")>>, "medium", "black"),
       Rect(400, 150, 580, 200, "", "black", 1),
       Text(420, 175, "", <<L("Signature")>>, "small", "black"),
       Text(20, PanHeight - 30, "",
            <<L("This is a test PAN card for development purposes")>>, "small", "gray") >>

PanSave == << Save("pan.jpg", "image", JpegQuality) >>

PanReport ==
    << Out("created", "Created pan.jpg with Indian PAN card data", <<>>),
       Out("blank", "", <<>>),
       Out("header", "Expected extracted data:", <<>>),
       Out("field", "Full Name: ", <<K("name")>>),
       Out("field", "PAN Number: ", <<K("pan_number")>>),
       Out("field", "Father's Name: ", <<K("father_name")>>),
       Out("field", "Date of Birth: ", <<K("date_of_birth")>>) >>

\* create-test-pan.py: the whole script body is create_test_pan().
PanProgram ==
    << Call("create_test_pan"), Alloc(PanWidth, PanHeight, "#D2B48C") >>
    \o PanTry \o << Rec >> \o PanDirectives
    \o PanSave \o PanReport \o << Ret("none") >>

PassportTry ==
    << Font("large", 16, 2), Font("medium", 12, 1), Font("small", 10, 0) >>

PassportDirectives ==
    << Rect(10, 10, PassportWidth - 10, 50, "", "black", 2),
       Text(20, 20, "", <<L("ESTONIAN PASSPORT")>>, "large", "black"),
       Text(20, 70, "Liik/Type: ", <<K("type")>>, "medium", "black"),
       Text(20, 70 + 20, "Riigi kood/Country code: ", <<K("country_code")>>, "medium", "black"),
       Text(20, 120, "1. Perekonnanimi / Surname: ", <<K("surname")>>, "medium", "black"),
       Text(20, 120 + 20, "2. Eesnimi / Given name: ", <<K("given_name")>>, "medium", "black"),
       Text(20, 120 + 40, "3. Isikukood / Personal code: ", <<K("personal_code")>>, "medium", "black"),
       Text(20, 120 + 60, "4. Kodakondsus / Citizenship: ", <<K("citizenship")>>, "medium", "black"),
       Text(20, 120 + 80, "5. Sünniaeg / Date of birth: ", <<K("date_of_birth")>>, "medium", "black"),
       Text(20, 120 + 100, "6. Sugu / Sex: ", <<K("sex")>>, "medium", "black"),
       Text(20, 120 + 120, "7. Sünnikoht / Place of birth: ", <<L("Tallinn, Estonia")>>, "medium", "black"),
       Text(20, 120 + 140, "8. Aadress / Address: ", <<L("Tallinn, Estonia")>>, "medium", "black"),
       Text(300, 260, "Dokumendi number: ", <<K("document_number")>>, "medium", "black"),
       Text(300, 260 + 20, "8. Välja antud: ", <<K("date_of_issue")>>, "medium", "black"),
       Text(300, 260 + 40, "9. Kehtiv kuni: ", <<K("date_of_expiry")>>, "medium", "black"),
       Text(300, 260 + 60, "11. Väljaandja: ", <<K("authority")>>, "medium", "black"),
       Text(300, 260 + 80, "Address: ",
            <<L("Police and Border Guard Board, Tallinn, Estonia")>>, "medium", "black"),
       Rect(10, PassportHeight - 60, PassportWidth - 10, PassportHeight - 10, "", "black", 1),
       Text(15, (PassportHeight - 60) + 10, "", <<K("mrz_line1")>>, "small", "black"),
       Text(15, (PassportHeight - 60) + 25, "", <<K("mrz_line2")>>, "small", "black") >>

PassportSave == << Save("passport.jpg", "returned", JpegQuality) >>

PassportReport ==
    << Out("created", "Created passport.jpg with Estonian passport data", <<>>),
       Out("header", "\nExpected extracted data:", <<>>),
       Out("field", "Full Name: ", <<K("surname"), L(", "), K("given_name")>>),
       Out("field", "Passport Number: ", <<K("document_number")>>),
       Out("field", "Nationality: ", <<L("Estonia")>>),
       Out("field", "Date of Birth: ", <<L("1990-10-19")>>),
       Out("field", "Expiry Date: ", <<L("2033-02-13")>>),
       Out("field", "Issue Date: ", <<L("2023-02-13")>>) >>

\* (variant: the save statement placed inside create_passport_image)
PassportProgramSavingInside ==
    << Rec, Call("create_passport_image"),
       Alloc(PassportWidth, PassportHeight, "white") >>
    \o PassportTry \o PassportDirectives
    \o << Save("passport.jpg", "image", JpegQuality), Ret("image") >>
    \o PassportReport

\* create-test-passport.py: module-level record, create_passport_image(),
\* then the __main__ block.
PassportProgram ==
    << Rec, Call("create_passport_image"),
       Alloc(PassportWidth, PassportHeight, "white") >>
    \o PassportTry \o PassportDirectives \o << Ret("image") >>
    \o PassportSave \o PassportReport

VisaTry ==
    << Font("large", 14, 2), Font("medium", 11, 1), Font("small", 9, 0) >>

VisaDirectives ==
    << Rect(10, 10, VisaWidth - 10, 50, "", "black", 2),
       Text(20, 20, "", <<L("INDIAN VISA")>>, "large", "black"),
       Text(20, 70, "Visa Type: ", <<K("visa_type")>>, "medium", "black"),
       Text(20, 70 + 20, "Visa Category: ", <<K("visa_category")>>, "medium", "black"),
       Text(20, 70 + 40, "Visa Number: ", <<K("visa_number")>>, "medium", "black"),
       Text(20, 70 + 60, "Country: ", <<K("country")>>, "medium", "black"),
       Text(20, 70 + 80, "Authority: ", <<K("authority")>>, "medium", "black"),
       Text(20, 70 + 100, "Place of Issue: ", <<K("place_of_issue")>>, "medium", "black"),
       Text(20, 70 + 120, "Purpose: ", <<K("purpose_of_visit")>>, "medium", "black"),
       Text(20, 200, "Issue Date: ", <<K("issue_date")>>, "medium", "red"),
       Text(20, 200 + 20, "Expiry Date: ", <<K("expiry_date")>>, "medium", "black"),
       Text(20, 250, "Port of Entry: ", <<K("port_of_entry")>>, "medium", "black"),
       Text(20, 250 + 20, "Entries: ", <<K("entries")>>, "medium", "black"),
       Text(20, 250 + 40, "Stay Duration: ", <<K("stay_duration")>>, "medium", "black"),
       Text(20, 250 + 60, "Nationality: ", <<K("nationality")>>, "medium", "black"),
       Text(20, 250 + 80, "Passport No: ", <<K("passport_number")>>, "medium", "black"),
       Text(20, 250 + 100, "Status: ", <<K("visa_status")>>, "medium", "black"),
       Text(20, 250 + 120, "Remarks: ", <<K("remarks")>>, "medium", "black"),
       Rect(5, 5, VisaWidth - 5, VisaHeight - 5, "", "blue", 3) >>

\* return image.resize((width, 450)) is a resize followed by the return.
VisaReturn == << Resize(VisaWidth, VisaResizeHeight), Ret("expression") >>

VisaSave == << Save("visa.jpg", "returned", JpegQuality) >>

VisaReport ==
    << Out("created", "Created visa.jpg with Indian visa data", <<>>),
       Out("header", "\nExpected extracted data (FRRO C-Form Ready):", <<>>),
       Out("field", "Visa Type: ", <<K("visa_type")>>),
       Out("field", "Visa Category: ", <<K("visa_category")>>),
       Out("field", "Visa Number: ", <<K("visa_number")>>),
       Out("field", "Country: ", <<K("country")>>),
       Out("field", "Place of Issue: ", <<K("place_of_issue")>>),
       Out("field", "Purpose of Visit: ", <<K("purpose_of_visit")>>),
       Out("field", "Issue Date: ", <<L("2025-03-14")>>),
       Out("field", "Expiry Date: ", <<L("2026-03-09")>>),
       Out("field", "Port of Entry: ", <<K("port_of_entry")>>),
       Out("field", "Entries: ", <<K("entries")>>),
       Out("field", "Duration of Stay: ", <<K("stay_duration")>>),
       Out("field", "Nationality: ", <<K("nationality")>>),
       Out("field", "Passport Number: ", <<K("passport_number")>>),
       Out("field", "Visa Status: ", <<K("visa_status")>>),
       Out("field", "Remarks: ", <<K("remarks")>>) >>

\* create-test-visa.py: module-level record, create_visa_image(), then the
\* __main__ block.
VisaProgram ==
    << Rec, Call("create_visa_image"), Alloc(VisaWidth, VisaHeight, "white") >>
    \o VisaTry \o VisaDirectives \o VisaReturn
    \o VisaSave \o VisaReport

Program(s) ==
    CASE s = "aadhaar" -> AadhaarProgram
      [] s = "pan" -> PanProgram
      [] s = "passport" -> PassportProgram
      [] s = "visa" -> VisaProgram

Directives(s) ==
    CASE s = "aadhaar" -> AadhaarDirectives
      [] s = "pan" -> PanDirectives
      [] s = "passport" -> PassportDirectives
      [] s = "visa" -> VisaDirectives

Report(s) ==
    CASE s = "aadhaar" -> AadhaarReport
      [] s = "pan" -> PanReport
      [] s = "passport" -> PassportReport
      [] s = "visa" -> VisaReport

\* The function that applies the draw directives.
RenderFunction(s) ==
    CASE s = "aadhaar" -> "create_test_aadhaar"
      [] s = "pan" -> "create_test_pan"
      [] s = "passport" -> "create_passport_image"
      [] s = "visa" -> "create_visa_image"

----------------------------------------------------------------------------
\* Values.

\* f-string evaluation: the concatenation of the pieces, each lookup
\* replaced by the record's value.
RECURSIVE Eval(_, _)
Eval(parts, rec) ==
    IF parts = <<>> THEN ""
    ELSE (IF Head(parts).key # "" THEN rec[Head(parts).key] ELSE Head(parts).lit)
         \o Eval(Tail(parts), rec)

\* The record keys an f-string looks up.
KeysOf(parts) == {parts[i].key : i \in DOMAIN parts} \ {""}

\* Fonts: the three handles font_large, font_medium, font_small.
UnsetFont == [face |-> "unset", size |-> 0]
DefaultFont == [face |-> "default", size |-> 0]
TrueType(size) == [face |-> "/System/Library/Fonts/Arial.ttf", size |-> size]
NoFonts == [t \in Tiers |-> UnsetFont]

\* What is painted at a point.
Paint(kind, label, value, color, font) ==
    [kind |-> kind, label |-> label, value |-> value, color |-> color, font |-> font]
Background(color) == Paint("background", "", "", color, UnsetFont)

\* Anchor points of the text directives of a script (the sampled pixels).
Anchors(s) ==
    {<<Directives(s)[i].x, Directives(s)[i].y>> :
        i \in {j \in DOMAIN Directives(s) : Directives(s)[j].op = "text"}}

InCanvas(p, w, h) == /\ 0 <= p[1] /\ p[1] < w
                     /\ 0 <= p[2] /\ p[2] < h

NoImage == [w |-> 0, h |-> 0, pix |-> [p \in {} |-> Background("")]]

\* Image.new('RGB', (width, height), bg)
NewImage(s, w, h, bg) ==
    [w |-> w, h |-> h,
     pix |-> [p \in {q \in Anchors(s) : InCanvas(q, w, h)} |-> Background(bg)]]

InBox(p, d) == /\ d.x0 <= p[1] /\ p[1] <= d.x1
               /\ d.y0 <= p[2] /\ p[2] <= d.y1

OnBorder(p, d) ==
    /\ InBox(p, d)
    /\ \/ p[1] - d.x0 < d.width
       \/ d.x1 - p[1] < d.width
       \/ p[2] - d.y0 < d.width
       \/ d.y1 - p[2] < d.width

\* draw.rectangle(box, fill=..., outline=..., width=...): paints over
\* whatever is there.
DrawRectangleOn(img, d) ==
    [img EXCEPT !.pix =
        [p \in DOMAIN img.pix |->
            IF d.outline # "" /\ OnBorder(p, d)
            THEN Paint("outline", "", "", d.outline, UnsetFont)
            ELSE IF d.fill # "" /\ InBox(p, d)
            THEN Paint("fill", "", "", d.fill, UnsetFont)
            ELSE img.pix[p]]]

\* draw.text((x, y), text, font=..., fill=...): paints over whatever is
\* there; text anchored outside the surface is clipped away.
DrawTextOn(img, d, rec, fnts) ==
    [img EXCEPT !.pix =
        [p \in DOMAIN img.pix |->
            IF p = <<d.x, d.y>>
            THEN Paint("text", d.label, Eval(d.parts, rec), d.color, fnts[d.tier])
            ELSE img.pix[p]]]

ScalePoint(p, img, w, h) == <<(p[1] * w) \div img.w, (p[2] * h) \div img.h>>

\* image.resize((w, h)): a new surface of the given size holding the old
\* content stretched onto it.
ResizeImage(img, w, h) ==
    [w |-> w, h |-> h,
     pix |-> [q \in {ScalePoint(p, img, w, h) : p \in DOMAIN img.pix} |->
                img.pix[CHOOSE p \in DOMAIN img.pix : ScalePoint(p, img, w, h) = q]]]

\* Files.
Paths == {"aadhaar.jpg", "pan.jpg", "passport.jpg", "visa.jpg"}
NoFile == [format |-> "none", quality |-> 0, image |-> NoImage]
TruncatedFile == [format |-> "truncated", quality |-> 0, image |-> NoImage]
\* image.save(path, 'JPEG', quality=95)
Encode(img, quality) == [format |-> "JPEG", quality |-> quality, image |-> img]

\* A console line.
Line(kind, label, value) == [kind |-> kind, label |-> label, value |-> value]

\* Which exceptions are caught where: the bare except around the truetype
\* loads catches everything, nothing else in the scripts is inside a try.
CatchesNothing(site) == FALSE
CatchesEverything(site) == TRUE
Catches(site) == site = "font"

\* The except handler: all three handles become the built-in font,
\* whichever load failed.
KeepLoadedFonts(fnts) ==
    [t \in Tiers |-> IF fnts[t] = UnsetFont THEN DefaultFont ELSE fnts[t]]
ExceptHandler(fnts) == [t \in Tiers |-> DefaultFont]

\* Exit status of the interpreter: 0 at the end of the script, 1 after an
\* uncaught exception.
AlwaysZero(c) == 0
ExitStatus(c) == IF c = "none" THEN 0 ELSE 1

NoPrev == [fontFailed |-> FALSE, wrote |-> NoFile, canvas |-> NoImage,
           exitCode |-> 0, cause |-> "none"]

----------------------------------------------------------------------------
\* The interpreter.

Init ==
    /\ script \in Scripts
    /\ pc = 1
    /\ frame = "module"
    /\ canvas = NoImage
    /\ fonts = NoFonts
    /\ fontFailed = FALSE
    /\ record = NoRecord
    /\ returned = NoImage
    /\ fs = [p \in Paths |-> NoFile]
    /\ wrote = NoFile
    /\ attempts = 0
    /\ applied = 0
    /\ console = <<>>
    /\ status = "running"
    /\ exitCode = 0
    /\ cause = "none"
    /\ runs = 1
    /\ prev = NoPrev

Running == status = "running" /\ pc <= Len(Program(script))
Cur == Program(script)[pc]
At(op) == Running /\ Cur.op = op

\* An uncaught exception: traceback on stderr, the process ends.
Raise(exc) ==
    /\ status' = "exited"
    /\ cause' = exc
    /\ exitCode' = ExitStatus(exc)
    /\ UNCHANGED pc

Continue ==
    /\ pc' = pc + 1
    /\ UNCHANGED <<status, cause, exitCode>>

\* create_...() is called.
CallFunction ==
    /\ At("call")
    /\ frame' = Cur.fn
    /\ Continue
    /\ UNCHANGED <<script, canvas, fonts, fontFailed, record, returned, fs,
                   wrote, attempts, applied, console, runs, prev>>

\* image = Image.new(...); draw = ImageDraw.Draw(image)
AllocCanvas ==
    /\ At("alloc")
    /\ canvas' = NewImage(script, Cur.w, Cur.h, Cur.bg)
    /\ Continue
    /\ UNCHANGED <<script, frame, fonts, fontFailed, record, returned, fs,
                   wrote, attempts, applied, console, runs, prev>>

\* ImageFont.truetype(...) succeeds.
LoadFont ==
    /\ At("font")
    /\ fonts' = [fonts EXCEPT ![Cur.tier] = TrueType(Cur.size)]
    /\ Continue
    /\ UNCHANGED <<script, frame, canvas, fontFailed, record, returned, fs,
                   wrote, attempts, applied, console, runs, prev>>

\* ImageFont.truetype(...) raises: the except block runs and execution
\* goes on after the try statement.
LoadFontFails ==
    /\ At("font")
    /\ fontFailed' = TRUE
    /\ IF Catches("font")
       THEN /\ fonts' = ExceptHandler(fonts)
            /\ pc' = pc + 1 + Cur.skip
            /\ UNCHANGED <<status, cause, exitCode>>
       ELSE /\ Raise("font")
            /\ UNCHANGED fonts
    /\ UNCHANGED <<script, frame, canvas, record, returned, fs,
                   wrote, attempts, applied, console, runs, prev>>

\* ..._data = {...}
DefineRecord ==
    /\ At("record")
    /\ record' = RecordOf(script)
    /\ Continue
    /\ UNCHANGED <<script, frame, canvas, fonts, fontFailed, returned, fs,
                   wrote, attempts, applied, console, runs, prev>>

\* draw.rectangle(...)
DrawRectangle ==
    /\ At("rect")
    /\ canvas' = DrawRectangleOn(canvas, Cur)
    /\ applied' = applied + 1
    /\ Continue
    /\ UNCHANGED <<script, frame, fonts, fontFailed, record, returned, fs,
                   wrote, attempts, console, runs, prev>>

\* draw.text(...): the f-string is evaluated first (a missing key raises
\* KeyError), then the text is painted.
DrawText ==
    /\ At("text")
    /\ IF KeysOf(Cur.parts) \subseteq DOMAIN record
       THEN /\ canvas' = DrawTextOn(canvas, Cur, record, fonts)
            /\ applied' = applied + 1
            /\ Continue
       ELSE /\ Raise("KeyError")
            /\ UNCHANGED <<canvas, applied>>
    /\ UNCHANGED <<script, frame, fonts, fontFailed, record, returned, fs,
                   wrote, attempts, console, runs, prev>>

\* image.resize((width, 450)) evaluated as the return expression: the
\* result is a new surface, the local image is left as it is.
ResizeCanvas ==
    /\ At("resize")
    /\ returned' = ResizeImage(canvas, Cur.w, Cur.h)
    /\ Continue
    /\ UNCHANGED <<script, frame, canvas, fonts, fontFailed, record, fs,
                   wrote, attempts, applied, console, runs, prev>>

\* return: Ret("image") returns the local image, Ret("expression") the
\* value the preceding resize has produced, Ret("none") falls off the end of
\* the function body.
ReturnFromFunction ==
    /\ At("return")
    /\ frame' = "module"
    /\ returned' = IF Cur.what = "image" THEN canvas ELSE returned
    /\ Continue
    /\ UNCHANGED <<script, canvas, fonts, fontFailed, record, fs,
                   wrote, attempts, applied, console, runs, prev>>

SavedImage == IF Cur.src = "image" THEN canvas ELSE returned

\* image.save(...) succeeds.
SaveImage ==
    /\ At("save")
    /\ attempts' = attempts + 1
    /\ fs' = [fs EXCEPT ![Cur.path] = Encode(SavedImage, Cur.quality)]
    /\ wrote' = Encode(SavedImage, Cur.quality)
    /\ Continue
    /\ UNCHANGED <<script, frame, canvas, fonts, fontFailed, record, returned,
                   applied, console, runs, prev>>

\* image.save(...) raises (permission denied, disk full): the file is
\* left as it was or truncated.
SaveImageFails ==
    /\ At("save")
    /\ attempts' = attempts + 1
    /\ \E left \in {fs[Cur.path], TruncatedFile} :
          fs' = [fs EXCEPT ![Cur.path] = left]
    /\ IF Catches("save") THEN Continue ELSE Raise("save")
    /\ UNCHANGED <<script, frame, canvas, fonts, fontFailed, record, returned,
                   wrote, applied, console, runs, prev>>

\* print(...)
PrintLine ==
    /\ At("print")
    /\ IF KeysOf(Cur.parts) \subseteq DOMAIN record
       THEN /\ console' = Append(console, Line(Cur.kind, Cur.label, Eval(Cur.parts, record)))
            /\ Continue
       ELSE /\ Raise("KeyError")
            /\ UNCHANGED console
    /\ UNCHANGED <<script, frame, canvas, fonts, fontFailed, record, returned,
                   fs, wrote, attempts, applied, runs, prev>>

\* The end of the script is reached.
ExitNormally ==
    /\ status = "running"
    /\ pc = Len(Program(script)) + 1
    /\ status' = "exited"
    /\ exitCode' = ExitStatus(cause)
    /\ UNCHANGED <<script, pc, frame, canvas, fonts, fontFailed, record,
                   returned, fs, wrote, attempts, applied, console, cause,
                   runs, prev>>

\* The same script is run again: a fresh process, the same working
\* directory.
Rerun ==
    /\ status = "exited"
    /\ runs < MaxRuns
    /\ runs' = runs + 1
    /\ prev' = [fontFailed |-> fontFailed, wrote |-> wrote, canvas |-> canvas,
                exitCode |-> exitCode, cause |-> cause]
    /\ pc' = 1
    /\ frame' = "module"
    /\ canvas' = NoImage
    /\ fonts' = NoFonts
    /\ fontFailed' = FALSE
    /\ record' = NoRecord
    /\ returned' = NoImage
    /\ wrote' = NoFile
    /\ attempts' = 0
    /\ applied' = 0
    /\ console' = <<>>
    /\ status' = "running"
    /\ exitCode' = 0
    /\ cause' = "none"
    /\ UNCHANGED <<script, fs>>

Next ==
    \/ CallFunction
    \/ AllocCanvas
    \/ LoadFont
    \/ LoadFontFails
    \/ DefineRecord
    \/ DrawRectangle
    \/ DrawText
    \/ ResizeCanvas
    \/ ReturnFromFunction
    \/ SaveImage
    \/ SaveImageFails
    \/ PrintLine
    \/ ExitNormally
    \/ Rerun

Spec == Init /\ [][Next]_vars

TypeOK ==
    /\ script \in Scripts
    /\ pc \in 1..(Len(Program(script)) + 1)
    /\ status \in {"running", "exited"}
    /\ exitCode \in {0, 1}
    /\ runs \in 1..MaxRuns

----------------------------------------------------------------------------
\* Vocabulary of the properties.

Exited == status = "exited"
Completed == Exited /\ cause = "none"
NumDirectives == Len(Directives(script))

\* The report a complete run prints.
FullReport ==
    [i \in 1..Len(Report(script)) |->
        Line(Report(script)[i].kind, Report(script)[i].label,
             Eval(Report(script)[i].parts, RecordOf(script)))]

\* The values of the text visible on an image.
DrawnValues(img) ==
    {img.pix[p].value : p \in {q \in DOMAIN img.pix : img.pix[q].kind = "text"}}

\* The directives applied in order to a surface.
RECURSIVE Render(_, _, _, _)
Render(img, ds, rec, fnts) ==
    IF ds = <<>> THEN img
    ELSE Render(IF Head(ds).op = "rect" THEN DrawRectangleOn(img, Head(ds))
                ELSE DrawTextOn(img, Head(ds), rec, fnts),
                Tail(ds), rec, fnts)

\* A save was attempted and did not write the file.
SaveFailed == attempts > 0 /\ wrote = NoFile

\* The statements of a script that define the record, allocate the canvas
\* and save the file.
RecordIndex(s) == CHOOSE i \in DOMAIN Program(s) : Program(s)[i].op = "record"
AllocIndex(s) == CHOOSE i \in DOMAIN Program(s) : Program(s)[i].op = "alloc"
SaveIndex(s) == CHOOSE i \in DOMAIN Program(s) : Program(s)[i].op = "save"
OutputPath(s) == Program(s)[SaveIndex(s)].path
BlankCanvas(s) ==
    NewImage(s, Program(s)[AllocIndex(s)].w, Program(s)[AllocIndex(s)].h,
             Program(s)[AllocIndex(s)].bg)

----------------------------------------------------------------------------
\* C1: every field line printed under "Expected extracted data" reports a
\* value that is the value of some text drawn on the image written to the
\* file.
C1_ReportMatchesImage ==
    \A i \in DOMAIN console :
        console[i].kind = "field" => console[i].value \in DrawnValues(wrote.image)

\* C2 (as stated): whenever a font load failed, the run ends without an
\* error, with every directive applied, the file written and the whole
\* report printed.
C2_FontFailureStillCompletes ==
    (Exited /\ fontFailed) =>
        /\ cause = "none"
        /\ applied = NumDirectives
        /\ wrote # NoFile
        /\ console = FullReport

\* C2 (amended): a font load failure, at any of the three tiers, never
\* terminates the run: all three handles become the built-in font and the
\* run goes on; it then ends either complete (every directive applied, file
\* written, whole report printed) or on a failure of the write step itself,
\* reached with every directive applied.
C2_FontFailureNotFatal ==
    fontFailed =>
        /\ cause # "font"
        /\ \A t \in Tiers : fonts[t] = DefaultFont
        /\ Exited =>
              \/ /\ cause = "none"
                 /\ applied = NumDirectives
                 /\ wrote # NoFile
                 /\ console = FullReport
              \/ /\ cause = "save"
                 /\ applied = NumDirectives

C2_Witness ==
    /\ fontFailed /\ Completed
    /\ applied = NumDirectives
    /\ fs[OutputPath(script)] = wrote
    /\ wrote.image.pix # NoImage.pix
    /\ console = FullReport

\* C3: the image written to the file has the width and the height declared
\* when the canvas was allocated.
C3_SavedSizeIsDeclaredSize ==
    wrote # NoFile =>
        /\ wrote.image.w = DeclaredWidth(script)
        /\ wrote.image.h = DeclaredHeight(script)

\* C4: build record, render, encode+write, report happen in this order: a
\* directive that looks up a record field is applied only once the record
\* is defined, the write starts only after the last directive is applied,
\* and nothing is printed before the write has completed.
C4_PhaseOrder ==
    /\ (\E i \in 1..applied :
           /\ Directives(script)[i].op = "text"
           /\ KeysOf(Directives(script)[i].parts) # {})
          => record = RecordOf(script)
    /\ attempts > 0 => applied = NumDirectives
    /\ console # <<>> => wrote # NoFile

C4_Witness ==
    /\ Completed
    /\ record = RecordOf(script)
    /\ applied = NumDirectives
    /\ wrote # NoFile
    /\ console = FullReport

\* C5 (as stated): every run ends with exit status 0, a failed write
\* included.
C5_AlwaysExitsZero == Exited => exitCode = 0

\* C5 (amended): a run that reaches the end of the script exits with status
\* 0, whatever the outcome of font loading; a run whose encode+write step
\* fails ends with exit status 1.
C5_ExitStatusFollowsOutcome ==
    Exited =>
        /\ cause = "none" => exitCode = 0
        /\ SaveFailed => exitCode = 1
        /\ cause \in {"none", "save"}

C5_Witness == Exited /\ SaveFailed /\ exitCode = 1 /\ fontFailed

\* C6: a failed encode+write ends the script at the save statement as an
\* uncaught failure: the write is attempted once and neither the
\* "Created ..." line nor any report line is printed.
C6_WriteFailureIsFatal ==
    /\ attempts <= 1
    /\ SaveFailed =>
          /\ Exited
          /\ cause = "save"
          /\ Program(script)[pc].op = "save"
          /\ console = <<>>

C6_Witness == SaveFailed /\ Exited /\ fs[OutputPath(script)] = TruncatedFile

\* C7: the directives are applied in source order, each painting over the
\* earlier ones, so the canvas is always the first `applied` directives
\* rendered in that order; and two runs of the same script with the same
\* font-resolution outcome end with identical canvases and identical files.
C7_Deterministic ==
    /\ canvas # NoImage =>
          canvas = Render(BlankCanvas(script),
                          SubSeq(Directives(script), 1, applied),
                          RecordOf(script), fonts)
    /\ (runs > 1 /\ prev.fontFailed = fontFailed) =>
          /\ (wrote # NoFile /\ prev.wrote # NoFile) => wrote = prev.wrote
          /\ (applied = NumDirectives /\ prev.wrote # NoFile) => canvas = prev.canvas

C7_Witness ==
    /\ runs > 1 /\ Completed
    /\ fontFailed /\ prev.fontFailed
    /\ prev.wrote # NoFile /\ wrote = prev.wrote

\* C8: every field name the rendering and the report look up is a key of
\* the script's record, so no lookup fails; and from its definition to the
\* end of the run the record is the literal it was defined as.
C8_FieldsPresent ==
    /\ \A i \in DOMAIN Program(script) :
          Program(script)[i].op \in {"text", "print"} =>
             KeysOf(Program(script)[i].parts) \subseteq DOMAIN RecordOf(script)
    /\ cause # "KeyError"
    /\ pc > RecordIndex(script) => record = RecordOf(script)
    /\ pc <= RecordIndex(script) => record = NoRecord

C8_Witness ==
    /\ script = "visa" /\ Completed
    /\ record = visa_data
    /\ Len(console) = Len(Report(script))
    /\ console[Len(console)].value = visa_data["remarks"]

\* C9 (as stated): in every script, while the function that applies the
\* draw directives is executing, no file write has been attempted and
\* nothing has been printed; both happen after it has returned.
C9_RenderIsPure ==
    (status = "running" /\ frame = RenderFunction(script)) =>
        /\ attempts = 0
        /\ console = <<>>

\* C9 (amended): in the passport and visa scripts the function that applies
\* the draw directives attempts no file write and prints nothing, and the
\* write and the report happen in the module body after it has returned the
\* surface; in the national-ID and tax-ID scripts that same function writes
\* the file and prints the report itself, after its last draw directive.
C9_RenderPureWherePossible ==
    /\ (script \in {"passport", "visa"} /\ (attempts > 0 \/ console # <<>>)) =>
          /\ frame = "module"
          /\ returned # NoImage
          /\ applied = NumDirectives
    /\ (script \in {"aadhaar", "pan"} /\ (attempts > 0 \/ console # <<>>)) =>
          /\ applied = NumDirectives
          /\ returned = NoImage
          /\ (pc <= Len(Program(script)) => frame = RenderFunction(script))

C9_Witness ==
    /\ script = "passport" /\ frame = "module"
    /\ returned = canvas /\ wrote = Encode(returned, JpegQuality)
    /\ console # <<>>

\* C10: in the visa script every text directive applied so far is anchored
\* inside the canvas it was drawn on, and the returned image shows the
\* value of every text directive.
C10_VisaContentFits ==
    script = "visa" =>
        /\ \A i \in 1..applied :
              Directives(script)[i].op = "text" =>
                 InCanvas(<<Directives(script)[i].x, Directives(script)[i].y>>,
                          canvas.w, canvas.h)
        /\ returned # NoImage =>
              \A i \in DOMAIN Directives(script) :
                 Directives(script)[i].op = "text" =>
                    Eval(Directives(script)[i].parts, RecordOf(script))
                       \in DrawnValues(returned)

====
